---------------------------- MODULE Spec2Model ----------------------------
(***************************************************************************)
(* A model of pbtranscript: the naming convention and the format detection *)
(* of io/common.py, args_runner of tasks/collapse_mapped_isoforms.py and   *)
(* PBTranscript of PBTranscriptRunner.py.  The collapsing engine that      *)
(* args_runner drives (CollapseIsoformsRunner) is modelled from its        *)
(* specification: the Alignment Filter, the Locus Partitioner, the Fuzzy    *)
(* Exon-Chain Matcher, and the parallel workers with their single writer.  *)
(*                                                                         *)
(* Python strings are sequences of one-character strings, so that split,   *)
(* startswith, endswith, strip, int() and str() are computed as Python     *)
(* computes them.  Each component has its own specification; the variables *)
(* of the other components keep their initial values.                      *)
(***************************************************************************)
EXTENDS Integers, Sequences, FiniteSets

VARIABLES
    npc,      \* naming: "idle" | "built" | "printed" | "line" | "parsed_cluster" | "parsed_sample"
    nargs,    \* naming: the constructor's arguments
    nobj,     \* naming: the object the constructor returned, or its error
    ntext,    \* naming: the text under consideration (str(obj) or a line read)
    nparsed,  \* naming: what fromString returned, or its error
    rpc,      \* args_runner: "idle" | "ran" | "done" | "raised"
    rarg,     \* args_runner: args.collapsed_isoforms (given = FALSE: None)
    rrep,     \* args_runner: the suffixes s for which the file c.rep_fn(s) exists
    rparse,   \* args_runner: what parse_ds_filename returned, or its error
    rdid,     \* args_runner: how the output was made: "" | "ln" | "as_contigset"
    rret,     \* args_runner: "" | "0" | the exception that left args_runner
    rout,     \* args_runner: whether c.run() returned, its output files written
    tpc,      \* PBTranscript: "idle" | "built" | "rejected" | "returned" | "propagated"
    tsub,     \* PBTranscript: the subCommand argument and args.subCommand
    tcmd,     \* PBTranscript: self._subCommand
    ttool,    \* PBTranscript: the tool run() built and ran, "" when none
    traised,  \* PBTranscript: what the tool raised: "" | "Exception" | "BaseException"
    tret,     \* PBTranscript: what run() returned: "" | "0" | "1"
    lpc,      \* partitioner: "streaming" | "done" | "unsorted"
    lin,      \* partitioner: the filtered records consumed so far, in order
    lopen,    \* partitioner: per strand, the open locus (places in lin)
    lemit,    \* partitioner: the loci emitted so far, in order
    mpc,      \* matcher: "idle" | "loading" | "grouped"
    margs,    \* matcher: the arguments args_runner was given
    mopts,    \* matcher: the options CollapseIsoformsRunner was built with
    miso,     \* matcher: the exon chains of one locus
    mparent,  \* matcher: the union-find forest over the places of miso
    fpc,      \* filter: "idle" | "reading" | "first" | "both"
    fargs,    \* filter: the arguments of the first and of the second run
    faln,     \* filter: the alignment records of the input, in file order
    fkept,    \* filter: per run, the places of faln that survive the filter
    fparent,  \* filter: per run, the union-find forest over the survivors
    wpc,      \* writer: "idle" | "working" | "written"
    wloci,    \* writer: the finalized loci, in the order they were handed off
    wstate,   \* writer: per locus "queued" | "running" | "finished" | "written"
    wfin,     \* writer: the loci in the order their workers finished
    wout      \* writer: the loci whose rows are in the output, in written order

nameVars == <<npc, nargs, nobj, ntext, nparsed>>

runnerVars == <<rpc, rarg, rrep, rparse, rdid, rret, rout>>

toolVars == <<tpc, tsub, tcmd, ttool, traised, tret>>

locusVars == <<lpc, lin, lopen, lemit>>

matchVars == <<mpc, margs, mopts, miso, mparent>>

filterVars == <<fpc, fargs, faln, fkept, fparent>>

writerVars == <<wpc, wloci, wstate, wfin, wout>>

vars == <<nameVars, runnerVars, toolVars, locusVars, matchVars, filterVars, writerVars>>

notName == <<runnerVars, toolVars, locusVars, matchVars, filterVars, writerVars>>

notRunner == <<nameVars, toolVars, locusVars, matchVars, filterVars, writerVars>>

notTool == <<nameVars, runnerVars, locusVars, matchVars, filterVars, writerVars>>

notLocus == <<nameVars, runnerVars, toolVars, matchVars, filterVars, writerVars>>

notMatch == <<nameVars, runnerVars, toolVars, locusVars, filterVars, writerVars>>

notFilter == <<nameVars, runnerVars, toolVars, locusVars, matchVars, writerVars>>

notWriter == <<nameVars, runnerVars, toolVars, locusVars, matchVars, filterVars>>

-----------------------------------------------------------------------------
(* Bounds *)

\* Integers given to the constructors range over -1..MaxNum.
MaxNum == 12

\* Genomic coordinates of alignment records range over 0..MaxCoord.
MaxCoord == 3

\* The partitioner is fed at most MaxRecords records.
MaxRecords == 3

\* Exon boundaries of the chains of a locus range over 0..MaxPos.
MaxPos == 4

\* A locus holds at most MaxIsoforms isoforms.
MaxIsoforms == 3

\* An alignment set given to two runs holds at most MaxAln records.
MaxAln == 3

\* A run hands at most MaxLoci finalized loci to its workers.
MaxLoci == 3

\* At most MaxWorkers loci are being processed at the same time.
MaxWorkers == 2

-----------------------------------------------------------------------------
(* Python strings and integers *)

Digit == <<"0", "1", "2", "3", "4", "5", "6", "7", "8", "9">>

DigitChars == {Digit[i] : i \in 1..10}

DigitVal(c) == (CHOOSE i \in 1..10 : Digit[i] = c) - 1

\* str(n) for a natural number n.
RECURSIVE NatStr(_)
NatStr(n) == IF n < 10 THEN <<Digit[n + 1]>>
             ELSE NatStr(n \div 10) \o <<Digit[(n % 10) + 1]>>

\* str(n) / "{}".format(n) for an integer n.
IntStr(n) == IF n < 0 THEN <<"-">> \o NatStr(-n) ELSE NatStr(n)

\* s[i:] for i >= 0.
From(s, i) == SubSeq(s, i + 1, Len(s))

\* s.startswith(p)
StartsWith(s, p) == Len(s) >= Len(p) /\ SubSeq(s, 1, Len(p)) = p

\* s.endswith(p)
EndsWith(s, p) == Len(s) >= Len(p) /\ SubSeq(s, Len(s) - Len(p) + 1, Len(s)) = p

\* s.split(ch): one more part than ch occurs in s, empty parts kept.
RECURSIVE SplitAcc(_, _, _, _)
SplitAcc(s, ch, cur, acc) ==
    IF s = <<>> THEN Append(acc, cur)
    ELSE IF Head(s) = ch THEN SplitAcc(Tail(s), ch, <<>>, Append(acc, cur))
    ELSE SplitAcc(Tail(s), ch, Append(cur, Head(s)), acc)

Split(s, ch) == SplitAcc(s, ch, <<>>, <<>>)

\* sep.join(parts)
RECURSIVE Join(_, _)
Join(parts, sep) ==
    IF parts = <<>> THEN <<>>
    ELSE IF Len(parts) = 1 THEN parts[1]
    ELSE parts[1] \o sep \o Join(Tail(parts), sep)

\* s.strip(): leading and trailing whitespace removed.
RECURSIVE LStrip(_)
LStrip(s) == IF s # <<>> /\ Head(s) = " " THEN LStrip(Tail(s)) ELSE s

RECURSIVE RStrip(_)
RStrip(s) == IF s # <<>> /\ s[Len(s)] = " " THEN RStrip(SubSeq(s, 1, Len(s) - 1)) ELSE s

Strip(s) == RStrip(LStrip(s))

\* The digits of an int() literal: whitespace stripped, one optional sign.
Unsigned(s) ==
    LET t == Strip(s)
    IN  IF t # <<>> /\ Head(t) \in {"-", "+"} THEN Tail(t) ELSE t

\* Whether int(s) succeeds for the string s (otherwise ValueError).
IsIntLiteral(s) ==
    /\ Unsigned(s) # <<>>
    /\ \A i \in 1..Len(Unsigned(s)) : Unsigned(s)[i] \in DigitChars

RECURSIVE DigitsVal(_, _)
DigitsVal(s, acc) == IF s = <<>> THEN acc
                     ELSE DigitsVal(Tail(s), 10 * acc + DigitVal(Head(s)))

\* int(s) for a string s with IsIntLiteral(s).
IntOfStr(s) ==
    LET t == Strip(s)
    IN  IF Head(t) = "-" THEN 0 - DigitsVal(Unsigned(s), 0) ELSE DigitsVal(Unsigned(s), 0)

-----------------------------------------------------------------------------
(* Python values given as arguments: an int, a str, or anything else *)

IntV(n) == [t |-> "int", n |-> n, s |-> <<>>]
StrV(s) == [t |-> "str", n |-> 0, s |-> s]
NoneV == [t |-> "other", n |-> 0, s |-> <<>>]

\* Whether int(v) succeeds.
CanInt(v) == v.t = "int" \/ (v.t = "str" /\ IsIntLiteral(v.s))

\* int(v)
PyInt(v) == IF v.t = "int" THEN v.n ELSE IntOfStr(v.s)

\* The exception int(v) raises when it fails.
IntError(v) == IF v.t = "str" THEN "ValueError" ELSE "TypeError"

-----------------------------------------------------------------------------
(* ClusterName and SampleIsoformName *)

\* A constructed name, or the exception raised instead (ok = FALSE): msg is
\* the text the exception's message quotes.
Name(cls, prefix, cid, fl, nfl, len) ==
    [ok |-> TRUE, cls |-> cls, err |-> "", msg |-> <<>>, sample_prefix |-> prefix,
     cluster_id_str |-> cid, num_fl |-> fl, num_nfl |-> nfl, length |-> len]

Raise(err, msg) ==
    [ok |-> FALSE, cls |-> "", err |-> err, msg |-> msg, sample_prefix |-> <<>>,
     cluster_id_str |-> <<>>, num_fl |-> 0, num_nfl |-> 0, length |-> 0]

NoName == Raise("", <<>>)

\* The mutant of CanonicalId: the prefix is added to every string.
CanonicalIdAlwaysPrefixed(cluster_id) ==
    IF cluster_id.t = "str" THEN <<"c">> \o cluster_id.s
    ELSE <<"c">> \o IntStr(cluster_id.n)

\* cluster_id_str as __init__ sets it, for a cluster_id that is a str or an int.
CanonicalId(cluster_id) ==
    IF cluster_id.t = "str"
    THEN IF StartsWith(cluster_id.s, <<"c">>) THEN cluster_id.s
         ELSE <<"c">> \o cluster_id.s
    ELSE <<"c">> \o IntStr(cluster_id.n)

\* ClusterName.__init__ (cls = "ClusterName"), also run by
\* SampleIsoformName.__init__ through super().
NameInit(cls, prefix, cluster_id, num_fl, num_nfl, length) ==
    IF cluster_id.t \notin {"str", "int"}
    THEN Raise("ValueError", <<"N", "o", "n", "e">>)
    ELSE IF ~CanInt(num_fl) THEN Raise(IntError(num_fl), num_fl.s)
    ELSE IF ~CanInt(num_nfl) THEN Raise(IntError(num_nfl), num_nfl.s)
    ELSE IF ~CanInt(length) THEN Raise(IntError(length), length.s)
    ELSE Name(cls, prefix, CanonicalId(cluster_id),
              PyInt(num_fl), PyInt(num_nfl), PyInt(length))

ClusterNameInit(cluster_id, num_fl, num_nfl, length) ==
    NameInit("ClusterName", <<>>, cluster_id, num_fl, num_nfl, length)

SampleIsoformNameInit(sample_prefix, cluster_id, num_fl, num_nfl, length) ==
    NameInit("SampleIsoformName", sample_prefix, cluster_id, num_fl, num_nfl, length)

\* The mutant of ClusterNameStr: num_fl and num_nfl change places.
ClusterNameStrSwapped(o) ==
    o.cluster_id_str \o <<"/", "f">> \o IntStr(o.num_nfl) \o <<"p">>
        \o IntStr(o.num_fl) \o <<"/">> \o IntStr(o.length)

\* ClusterName.__str__, which SampleIsoformName inherits.
ClusterNameStr(o) ==
    o.cluster_id_str \o <<"/", "f">> \o IntStr(o.num_fl) \o <<"p">>
        \o IntStr(o.num_nfl) \o <<"/">> \o IntStr(o.length)

\* ClusterName.cluster_id_num: the assertion holds, then int() decides.
ClusterIdNumDefined(o) ==
    StartsWith(o.cluster_id_str, <<"c">>) /\ IsIntLiteral(From(o.cluster_id_str, 1))

\* ClusterName.fromString(line)
ClusterNameFromString(line) ==
    LET parts == Split(line, "/")
    IN  IF Len(parts) # 3 THEN Raise("ValueError", line)
        ELSE LET f_p == Split(parts[2], "p")
             IN  IF Len(f_p) # 2 THEN Raise("ValueError", line)
                 ELSE IF ~IsIntLiteral(From(f_p[1], 1)) \/ ~IsIntLiteral(f_p[2])
                      THEN Raise("ValueError", line)
                 ELSE LET o == ClusterNameInit(StrV(parts[1]),
                                               IntV(IntOfStr(From(f_p[1], 1))),
                                               IntV(IntOfStr(f_p[2])),
                                               StrV(parts[3]))
                      IN  IF o.ok THEN o ELSE Raise("ValueError", line)

\* SampleIsoformName.fromString(line)
SampleIsoformNameFromString(line) ==
    LET parts == Split(Strip(line), "|")
    IN  IF Len(parts) # 2 THEN Raise("ValueError", line)
        ELSE LET c == ClusterNameFromString(parts[2])
             IN  IF ~c.ok THEN Raise("ValueError", line)
                 ELSE SampleIsoformNameInit(parts[1], StrV(c.cluster_id_str),
                                            IntV(c.num_fl), IntV(c.num_nfl),
                                            IntV(c.length))

-----------------------------------------------------------------------------
(* The inputs of the naming specification *)

Nums == -1..MaxNum

\* cluster_id strings: 'c12', '12', the empty string, 'c', 'xp', 'cc3', and two
\* that hold the field separator.
CidStrings ==
    { <<"c", "1", "2">>, <<"1", "2">>, <<>>, <<"c">>, <<"x", "p">>,
      <<"c", "c", "3">>, <<"1", "/", "2">>, <<"c", "1", "/", "2">> }

ClusterIds == {IntV(n) : n \in Nums} \cup {StrV(s) : s \in CidStrings} \cup {NoneV}

SamplePrefixes == { <<"s">>, <<"i", "1", "_", "H", "Q">> }

NoArgs == [cls |-> "", sample_prefix |-> <<>>, cluster_id |-> NoneV,
           num_fl |-> 0, num_nfl |-> 0, length |-> 0]

\* Lines handed to fromString: each field and each separator is drawn from
\* well-formed and malformed alternatives.
LinePrefixes == { <<>>, <<"s", "|">>, <<"s", "|", "t", "|">>, <<" ", "s", "|">> }
LineIds == { <<"c", "1">>, <<"1">>, <<>> }
LineSeps == { <<"/">>, <<>>, <<"/", "/">> }
LineFMarks == { <<"f">>, <<"x">>, <<>> }
LinePMarks == { <<"p">>, <<"q">>, <<"p", "p">> }
LineNums == { <<"2">>, <<"-", "3">>, <<"a">>, <<>> }

Lines ==
    { pre \o id \o s1 \o fm \o a \o pm \o b \o s2 \o c :
        pre \in LinePrefixes, id \in LineIds, s1 \in LineSeps, fm \in LineFMarks,
        a \in LineNums, pm \in LinePMarks, b \in LineNums, s2 \in LineSeps,
        c \in LineNums }

-----------------------------------------------------------------------------
(* The naming specification: construct, print, parse *)

InitName ==
    /\ npc = "idle"
    /\ nargs = NoArgs
    /\ nobj = NoName
    /\ ntext = <<>>
    /\ nparsed = NoName

\* ClusterName(cluster_id, num_fl, num_nfl, length)
NewClusterName ==
    /\ npc = "idle"
    /\ \E cid \in ClusterIds, fl \in Nums, nfl \in Nums, len \in Nums :
        /\ nargs' = [cls |-> "ClusterName", sample_prefix |-> <<>>, cluster_id |-> cid,
                     num_fl |-> fl, num_nfl |-> nfl, length |-> len]
        /\ nobj' = ClusterNameInit(cid, IntV(fl), IntV(nfl), IntV(len))
    /\ npc' = "built"
    /\ UNCHANGED <<ntext, nparsed>>
    /\ UNCHANGED notName

\* SampleIsoformName(sample_prefix, cluster_id, num_fl, num_nfl, length)
NewSampleIsoformName ==
    /\ npc = "idle"
    /\ \E pre \in SamplePrefixes, cid \in ClusterIds, fl \in Nums, nfl \in Nums,
          len \in Nums :
        /\ nargs' = [cls |-> "SampleIsoformName", sample_prefix |-> pre,
                     cluster_id |-> cid, num_fl |-> fl, num_nfl |-> nfl, length |-> len]
        /\ nobj' = SampleIsoformNameInit(pre, cid, IntV(fl), IntV(nfl), IntV(len))
    /\ npc' = "built"
    /\ UNCHANGED <<ntext, nparsed>>
    /\ UNCHANGED notName

\* str(obj)
StrName ==
    /\ npc = "built"
    /\ nobj.ok
    /\ ntext' = ClusterNameStr(nobj)
    /\ npc' = "printed"
    /\ UNCHANGED <<nargs, nobj, nparsed>>
    /\ UNCHANGED notName

\* A line arrives from outside (a sequence header, a group file).
ReadLine ==
    /\ npc = "idle"
    /\ \E line \in Lines : ntext' = line
    /\ npc' = "line"
    /\ UNCHANGED <<nargs, nobj, nparsed>>
    /\ UNCHANGED notName

\* ClusterName.fromString(text)
ParseClusterName ==
    /\ npc \in {"printed", "line"}
    /\ nparsed' = ClusterNameFromString(ntext)
    /\ npc' = "parsed_cluster"
    /\ UNCHANGED <<nargs, nobj, ntext>>
    /\ UNCHANGED notName

\* SampleIsoformName.fromString(text)
ParseSampleIsoformName ==
    /\ npc \in {"printed", "line"}
    /\ nparsed' = SampleIsoformNameFromString(ntext)
    /\ npc' = "parsed_sample"
    /\ UNCHANGED <<nargs, nobj, ntext>>
    /\ UNCHANGED notName

NextName ==
    \/ NewClusterName
    \/ NewSampleIsoformName
    \/ StrName
    \/ ReadLine
    \/ ParseClusterName
    \/ ParseSampleIsoformName

-----------------------------------------------------------------------------
(* parse_ds_filename *)

\* s.rfind(ch) + 1: the place of the last ch in s, 0 when there is none.
RFind(s, ch) ==
    IF \E i \in 1..Len(s) : s[i] = ch
    THEN CHOOSE i \in 1..Len(s) : s[i] = ch /\ \A j \in (i + 1)..Len(s) : s[j] # ch
    ELSE 0

\* s.rstrip('/')
RECURSIVE RStripSlash(_)
RStripSlash(s) ==
    IF s # <<>> /\ s[Len(s)] = "/" THEN RStripSlash(SubSeq(s, 1, Len(s) - 1)) ELSE s

\* os.path.basename
Basename(fn) == From(fn, RFind(fn, "/"))

\* os.path.dirname
Dirname(fn) ==
    LET head == SubSeq(fn, 1, RFind(fn, "/"))
    IN  IF head # <<>> /\ (\E i \in 1..Len(head) : head[i] # "/")
        THEN RStripSlash(head) ELSE head

\* os.path.join(a, b)
PathJoin(a, b) ==
    IF StartsWith(b, <<"/">>) THEN b
    ELSE IF a = <<>> \/ EndsWith(a, <<"/">>) THEN a \o b
    ELSE a \o <<"/">> \o b

\* '.'.join(op.basename(fn).split('.')[0:-k]) joined to the directory.
PrefixOf(fn, k) ==
    LET parts == Split(Basename(fn), ".")
    IN  PathJoin(Dirname(fn), Join(SubSeq(parts, 1, Len(parts) - k), <<".">>))

DotContigsetXml == <<".", "c", "o", "n", "t", "i", "g", "s", "e", "t", ".", "x", "m", "l">>
DotFasta == <<".", "f", "a", "s", "t", "a">>
DotFa == <<".", "f", "a">>
DotFastq == <<".", "f", "a", "s", "t", "q">>
DotFq == <<".", "f", "q">>

Parsed(prefix, suffix) == [ok |-> TRUE, err |-> "", prefix |-> prefix, suffix |-> suffix]
ParseError(err) == [ok |-> FALSE, err |-> err, prefix |-> <<>>, suffix |-> ""]
NoParse == ParseError("")

\* The mutant of ParseDsFilename: the short suffixes .fa and .fq are forgotten.
ParseDsFilenameLongOnly(fn) ==
    IF EndsWith(fn, DotContigsetXml) THEN Parsed(PrefixOf(fn, 2), "contigset.xml")
    ELSE IF EndsWith(fn, DotFasta) THEN Parsed(PrefixOf(fn, 1), "fasta")
    ELSE IF EndsWith(fn, DotFastq) THEN Parsed(PrefixOf(fn, 1), "fastq")
    ELSE ParseError("ValueError")

\* parse_ds_filename(fn): (prefix, suffix), or ValueError.
ParseDsFilename(fn) ==
    IF EndsWith(fn, DotContigsetXml) THEN Parsed(PrefixOf(fn, 2), "contigset.xml")
    ELSE IF EndsWith(fn, DotFasta) \/ EndsWith(fn, DotFa)
         THEN Parsed(PrefixOf(fn, 1), "fasta")
    ELSE IF EndsWith(fn, DotFastq) \/ EndsWith(fn, DotFq)
         THEN Parsed(PrefixOf(fn, 1), "fastq")
    ELSE ParseError("ValueError")

-----------------------------------------------------------------------------
(* args_runner of collapse_mapped_isoforms *)

\* Filenames given as --collapsed_isoforms: a directory, a stem, an extension.
FileDirs == { <<>>, <<"d", "/">> }
FileStems == { <<"a">>, <<"a", ".", "b">>, <<>>, <<"x", ".", "f", "a">> }
FileExts ==
    { DotContigsetXml, DotFasta, DotFa, DotFastq, DotFq, <<>>,
      <<".", "x", "m", "l">>, <<".", "t", "x", "t">>, <<".", "c", "o", "n", "t", "i", "g", "s", "e", "t">>, <<".", "f", "a", "s", "t", "a", ".", "g", "z">>, <<"f", "q">>, <<"c", "o", "n", "t", "i", "g", "s", "e", "t", ".", "x", "m", "l">>, <<".", "F", "A">> }

Filenames == { d \o st \o e : d \in FileDirs, st \in FileStems, e \in FileExts }

NoFile == [given |-> FALSE, fn |-> <<>>]
CollapsedArgs == {NoFile} \cup {[given |-> TRUE, fn |-> fn] : fn \in Filenames}

\* The formats the engine may have left a representative file in.
RepSuffixes == {"fasta", "fastq", "contigset.xml"}

\* The mutant of Materialize: args.collapsed_isoforms is parsed without the
\* test for None, the filename of an absent argument being empty.
MaterializeUnguarded(arg, rep) ==
    LET r == ParseDsFilename(arg.fn)
    IN  IF ~r.ok THEN [parse |-> r, did |-> "", ret |-> r.err]
        ELSE IF r.suffix \in rep THEN [parse |-> r, did |-> "ln", ret |-> "0"]
        ELSE IF r.suffix = ".contigset.xml"
             THEN [parse |-> r, did |-> "as_contigset", ret |-> "0"]
        ELSE [parse |-> r, did |-> "", ret |-> "IOError"]

\* What args_runner does after c.run(), from args.collapsed_isoforms and the
\* representative files that exist.
Materialize(arg, rep) ==
    IF ~arg.given THEN [parse |-> NoParse, did |-> "", ret |-> "0"]
    ELSE LET r == ParseDsFilename(arg.fn)
         IN  IF ~r.ok THEN [parse |-> r, did |-> "", ret |-> r.err]
             ELSE IF r.suffix \in rep THEN [parse |-> r, did |-> "ln", ret |-> "0"]
             ELSE IF r.suffix = ".contigset.xml"
                  THEN [parse |-> r, did |-> "as_contigset", ret |-> "0"]
             ELSE [parse |-> r, did |-> "", ret |-> "IOError"]

InitRunner ==
    /\ rpc = "idle"
    /\ rarg = NoFile
    /\ rrep = {}
    /\ rparse = NoParse
    /\ rdid = ""
    /\ rret = ""
    /\ rout = FALSE

\* args_runner(args) up to the end of c.run(), which returns.
CollapseRun ==
    /\ rpc = "idle"
    /\ \E arg \in CollapsedArgs : rarg' = arg
    /\ \E rep \in SUBSET RepSuffixes : rrep' = rep
    /\ rpc' = "ran"
    /\ rout' = TRUE
    /\ UNCHANGED <<rparse, rdid, rret>>
    /\ UNCHANGED notRunner

\* args_runner(args) up to c.run(), which raises: the exception leaves
\* args_runner.
CollapseRunRaises ==
    /\ rpc = "idle"
    /\ \E arg \in CollapsedArgs : rarg' = arg
    /\ rpc' = "raised"
    /\ rret' = "EngineError"
    /\ UNCHANGED <<rrep, rparse, rdid, rout>>
    /\ UNCHANGED notRunner

\* The rest of args_runner: the --collapsed_isoforms output.
MaterializeOutput ==
    /\ rpc = "ran"
    /\ LET m == Materialize(rarg, rrep)
       IN  /\ rparse' = m.parse
           /\ rdid' = m.did
           /\ rret' = m.ret
           /\ rpc' = IF m.ret = "0" THEN "done" ELSE "raised"
    /\ UNCHANGED <<rarg, rrep, rout>>
    /\ UNCHANGED notRunner

NextRunner ==
    \/ CollapseRun
    \/ CollapseRunRaises
    \/ MaterializeOutput

-----------------------------------------------------------------------------
(* PBTranscript: __init__ and run *)

KnownCommands == {"classify", "cluster", "subset"}

\* What a caller may give as subCommand, and what args.subCommand may hold.
SubCommandInputs == KnownCommands \cup {"None", "polish", ""}

\* How the tool run() builds and runs may end: it returns, it raises an
\* exception derived from Exception, or one derived from BaseException alone
\* (KeyboardInterrupt, SystemExit, GeneratorExit).
ToolOutcomes == {"", "Exception", "BaseException"}

\* The tool the if/elif chain of run() selects: "" in the else branch.
Dispatch(cmd) == IF cmd \in KnownCommands THEN cmd ELSE ""

\* What the try block of run() raises.
RaisedInTry(cmd, outcome) ==
    IF cmd \in KnownCommands THEN outcome ELSE "Exception"

\* The mutant of RunResult: an exception is logged and 0 returned all the same.
RunResultSwallowed(raised) ==
    IF raised = "BaseException" THEN [pc |-> "propagated", ret |-> ""]
    ELSE [pc |-> "returned", ret |-> "0"]

\* How run() ends: except Exception returns 1, anything else leaves run().
RunResult(raised) ==
    IF raised = "" THEN [pc |-> "returned", ret |-> "0"]
    ELSE IF raised = "Exception" THEN [pc |-> "returned", ret |-> "1"]
    ELSE [pc |-> "propagated", ret |-> ""]

InitTool ==
    /\ tpc = "idle"
    /\ tsub = [subCommand |-> "None", args |-> "None"]
    /\ tcmd = ""
    /\ ttool = ""
    /\ traised = ""
    /\ tret = ""

\* PBTranscript(args, subCommand): the assertion holds.
NewPBTranscript ==
    /\ tpc = "idle"
    /\ \E sub \in KnownCommands \cup {"None"}, a \in SubCommandInputs :
        /\ tsub' = [subCommand |-> sub, args |-> a]
        /\ tcmd' = IF sub = "None" THEN a ELSE sub
    /\ tpc' = "built"
    /\ UNCHANGED <<ttool, traised, tret>>
    /\ UNCHANGED notTool

\* PBTranscript(args, subCommand): the assertion fails, no object is made.
NewPBTranscriptRejected ==
    /\ tpc = "idle"
    /\ \E sub \in SubCommandInputs \ (KnownCommands \cup {"None"}),
          a \in SubCommandInputs :
        tsub' = [subCommand |-> sub, args |-> a]
    /\ tpc' = "rejected"
    /\ UNCHANGED <<tcmd, ttool, traised, tret>>
    /\ UNCHANGED notTool

\* PBTranscript.run()
Run ==
    /\ tpc = "built"
    /\ \E outcome \in ToolOutcomes :
        /\ ttool' = Dispatch(tcmd)
        /\ traised' = RaisedInTry(tcmd, outcome)
        /\ tpc' = RunResult(RaisedInTry(tcmd, outcome)).pc
        /\ tret' = RunResult(RaisedInTry(tcmd, outcome)).ret
    /\ UNCHANGED <<tsub, tcmd>>
    /\ UNCHANGED notTool

NextTool ==
    \/ NewPBTranscript
    \/ NewPBTranscriptRejected
    \/ Run

-----------------------------------------------------------------------------
(* The Locus Partitioner of the collapsing engine *)

\* The references in the order the alignment file sorts them, and the strands.
RefOrder == <<"chr1", "chr2">>
Strands == {"+", "-"}
StrandOrder == <<"+", "-">>

RefRank(ref) == CHOOSE i \in 1..Len(RefOrder) : RefOrder[i] = ref

\* The fixed margin by which a record must start past an open locus to close it.
FlushMargin == 1

\* The filtered alignment records: a footprint on a reference and strand.
Records ==
    { r \in [ref : {RefOrder[i] : i \in 1..Len(RefOrder)}, strand : Strands,
             start : 0..MaxCoord, end : 0..MaxCoord] : r.start <= r.end }

\* The alignment file's order: by reference, then by start coordinate.
SortedAfter(r, q) ==
    \/ RefRank(q.ref) < RefRank(r.ref)
    \/ (q.ref = r.ref /\ q.start <= r.start)

\* Two footprints overlap: same reference and strand, intersecting intervals.
Overlap(a, b) ==
    /\ a.ref = b.ref
    /\ a.strand = b.strand
    /\ a.start <= b.end
    /\ b.start <= a.end

Max(S) == CHOOSE x \in S : \A y \in S : y <= x

\* The mutant of ClosedBy: the end of the locus's last record stands in for the
\* running maximum end.
ClosedByLastEnd(recs, members, r) ==
    /\ members # {}
    /\ \/ recs[Max(members)].ref # r.ref
       \/ r.start > recs[Max(members)].end + FlushMargin

\* Whether the incoming record r proves the open locus closed: r is on another
\* reference, or starts past the locus's running maximum end by more than the
\* margin.
ClosedBy(recs, members, r) ==
    /\ members # {}
    /\ \/ \E i \in members : recs[i].ref # r.ref
       \/ r.start > Max({recs[i].end : i \in members}) + FlushMargin

\* The loci among the open ones that `closed` names, in strand order, emitted
\* when `at` records had been consumed.
RECURSIVE EmitClosed(_, _, _, _)
EmitClosed(open, closed, at, k) ==
    IF k > Len(StrandOrder) THEN <<>>
    ELSE (IF StrandOrder[k] \in closed
          THEN <<[members |-> open[StrandOrder[k]], at |-> at]>> ELSE <<>>)
         \o EmitClosed(open, closed, at, k + 1)

InitLocus ==
    /\ lpc = "streaming"
    /\ lin = <<>>
    /\ lopen = [st \in Strands |-> {}]
    /\ lemit = <<>>

\* The partitioner takes the next record of a sorted stream: the open loci it
\* proves closed are emitted, and the record joins the open locus of its strand.
Consume ==
    /\ lpc = "streaming"
    /\ Len(lin) < MaxRecords
    /\ \E r \in Records :
        /\ lin # <<>> => SortedAfter(r, lin[Len(lin)])
        /\ LET closed == {st \in Strands : ClosedBy(lin, lopen[st], r)}
           IN  /\ lemit' = lemit \o EmitClosed(lopen, closed, Len(lin), 1)
               /\ lopen' = [st \in Strands |->
                              (IF st \in closed THEN {} ELSE lopen[st])
                                \cup (IF st = r.strand THEN {Len(lin) + 1} ELSE {})]
        /\ lin' = Append(lin, r)
    /\ UNCHANGED lpc
    /\ UNCHANGED notLocus

\* The next record breaks the sort order: the run fails (UnsortedInputError).
ConsumeUnsorted ==
    /\ lpc = "streaming"
    /\ lin # <<>>
    /\ {r \in Records : ~SortedAfter(r, lin[Len(lin)])} # {}
    /\ lpc' = "unsorted"
    /\ UNCHANGED <<lin, lopen, lemit>>
    /\ UNCHANGED notLocus

\* The stream ends: every open locus is closed and emitted.
EndOfStream ==
    /\ lpc = "streaming"
    /\ LET closed == {st \in Strands : lopen[st] # {}}
       IN  lemit' = lemit \o EmitClosed(lopen, closed, Len(lin), 1)
    /\ lopen' = [st \in Strands |-> {}]
    /\ lpc' = "done"
    /\ UNCHANGED lin
    /\ UNCHANGED notLocus

NextLocus ==
    \/ Consume
    \/ ConsumeUnsorted
    \/ EndOfStream

-----------------------------------------------------------------------------
(* The Fuzzy Exon-Chain Matcher of the collapsing engine *)

\* Constants of collapse_mapped_isoforms.
MAX_FUZZY_JUNCTION_DEFAULT == 5
ALLOW_EXTRA_5EXON_DEFAULT == FALSE
SKIP_5_EXON_ALT_DEFAULT == FALSE

\* The values of --max_fuzzy_junction tried: exact junctions, and a tolerance
\* of one base (the coordinates of a locus span 0..MaxPos).
FuzzyInputs == {0, 1}

\* The parsed command line: --merge-5-shorter and --skip_5_exon_alt are
\* store_true flags, --max_fuzzy_junction is an int.
ArgsInputs ==
    [allow_extra_5exon : BOOLEAN, skip_5_exon_alt : BOOLEAN,
     max_fuzzy_junction : FuzzyInputs]

DefaultArgs ==
    [allow_extra_5exon |-> ALLOW_EXTRA_5EXON_DEFAULT,
     skip_5_exon_alt |-> SKIP_5_EXON_ALT_DEFAULT,
     max_fuzzy_junction |-> MAX_FUZZY_JUNCTION_DEFAULT]

\* The mutant of RunnerKwargs: skip_5_exon_alt is not handed on, the engine
\* keeps the default.
RunnerKwargsNoSkip(args) ==
    [max_fuzzy_junction |-> args.max_fuzzy_junction,
     allow_extra_5exon |-> args.allow_extra_5exon,
     skip_5_exon_alt |-> SKIP_5_EXON_ALT_DEFAULT]

\* The keyword arguments args_runner builds CollapseIsoformsRunner with.
RunnerKwargs(args) ==
    [max_fuzzy_junction |-> args.max_fuzzy_junction,
     allow_extra_5exon |-> args.allow_extra_5exon,
     skip_5_exon_alt |-> args.skip_5_exon_alt]

\* The elements of a set of numbers in increasing order.
RECURSIVE Ascending(_)
Ascending(S) ==
    IF S = {} THEN <<>>
    ELSE LET lo == CHOOSE x \in S : \A y \in S : x <= y
         IN  <<lo>> \o Ascending(S \ {lo})

\* An exon chain of m exons in alignment orientation (5' first), given by its
\* boundaries after the transcript's 5' end: the end of exon 1, the start and
\* end of exon 2, ..., the start of exon m and its end, the 3' boundary.
Chains ==
    { Ascending(S) : S \in {T \in SUBSET (0..MaxPos) : Cardinality(T) % 2 = 1} }

ExonCount(c) == (Len(c) + 1) \div 2

Fuzzy(x, y, tol) == x - y <= tol /\ y - x <= tol

\* Rule 1: chains of the same exon count match when every internal junction
\* (donor c[2k-1], acceptor c[2k]) fuzzy-matches; the 3' boundary is free.
JunctionsMatch(a, b, tol) ==
    /\ ExonCount(a) = ExonCount(b)
    /\ \A k \in 1..(Len(a) - 1) : Fuzzy(a[k], b[k], tol)

\* Rule 2: b has exactly one extra exon at the 5' end of a, and the remaining
\* junctions and the shared 3' boundary fuzzy-match.
ExtraFivePrimeExon(a, b, tol) ==
    /\ ExonCount(b) = ExonCount(a) + 1
    /\ \A k \in 1..Len(a) : Fuzzy(a[k], b[k + 2], tol)

\* The pairwise fuzzy-match relation under the engine's options.
Match(a, b, opts) ==
    IF ExonCount(a) = ExonCount(b)
    THEN JunctionsMatch(a, b, opts.max_fuzzy_junction)
    ELSE /\ opts.allow_extra_5exon
         /\ ~opts.skip_5_exon_alt
         /\ \/ ExtraFivePrimeExon(a, b, opts.max_fuzzy_junction)
            \/ ExtraFivePrimeExon(b, a, opts.max_fuzzy_junction)

\* Union-find: the root of i.
RECURSIVE Find(_, _)
Find(parent, i) == IF parent[i] = i THEN i ELSE Find(parent, parent[i])

\* Union-find: the trees of i and j joined.
Union(parent, i, j) ==
    IF Find(parent, i) = Find(parent, j) THEN parent
    ELSE [parent EXCEPT ![Find(parent, i)] = Find(parent, j)]

\* Every pair (i, j), i < j, of the locus is compared, from (i, j) on, and the
\* matching pairs are joined.
RECURSIVE UnionMatches(_, _, _, _, _)
UnionMatches(parent, iso, opts, i, j) ==
    IF i >= Len(iso) THEN parent
    ELSE IF j > Len(iso) THEN UnionMatches(parent, iso, opts, i + 1, i + 2)
    ELSE UnionMatches(IF Match(iso[i], iso[j], opts) THEN Union(parent, i, j) ELSE parent,
                      iso, opts, i, j + 1)

\* The mutant of GroupOf: the parent is taken for the root.
GroupOfParent(parent, i) == parent[i]

\* The group of isoform i: the root of its tree.
GroupOf(parent, i) == Find(parent, i)

\* The order in which a locus lists its chains: shorter first, then
\* lexicographic.
RECURSIVE LexLeq(_, _)
LexLeq(a, b) ==
    IF a = <<>> THEN TRUE
    ELSE IF b = <<>> THEN FALSE
    ELSE IF Head(a) # Head(b) THEN Head(a) < Head(b)
    ELSE LexLeq(Tail(a), Tail(b))

ChainLeq(a, b) == Len(a) < Len(b) \/ (Len(a) = Len(b) /\ LexLeq(a, b))

InitMatch ==
    /\ mpc = "idle"
    /\ margs = DefaultArgs
    /\ mopts = DefaultArgs
    /\ miso = <<>>
    /\ mparent = <<>>

\* args_runner builds the CollapseIsoformsRunner from the parsed arguments.
NewCollapseIsoformsRunner ==
    /\ mpc = "idle"
    /\ \E args \in ArgsInputs :
        /\ margs' = args
        /\ mopts' = RunnerKwargs(args)
    /\ mpc' = "loading"
    /\ UNCHANGED <<miso, mparent>>
    /\ UNCHANGED notMatch

\* The engine receives the next isoform of the locus.
AddIsoform ==
    /\ mpc = "loading"
    /\ Len(miso) < MaxIsoforms
    /\ \E c \in Chains :
        /\ miso # <<>> => ChainLeq(miso[Len(miso)], c)
        /\ miso' = Append(miso, c)
    /\ UNCHANGED <<mpc, margs, mopts, mparent>>
    /\ UNCHANGED notMatch

\* The locus is closed: its isoforms are grouped.
CollapseLocus ==
    /\ mpc = "loading"
    /\ miso # <<>>
    /\ mparent' = UnionMatches([i \in 1..Len(miso) |-> i], miso, mopts, 1, 2)
    /\ mpc' = "grouped"
    /\ UNCHANGED <<margs, mopts, miso>>
    /\ UNCHANGED notMatch

NextMatch ==
    \/ NewCollapseIsoformsRunner
    \/ AddIsoform
    \/ CollapseLocus

-----------------------------------------------------------------------------
(* The Alignment Filter of the collapsing engine, under two runs *)

\* Constants of collapse_mapped_isoforms, in hundredths (0.99 and 0.95).
MIN_ALN_COVERAGE_DEFAULT == 99
MIN_ALN_IDENTITY_DEFAULT == 95

\* The highest value of a coverage or an identity, in hundredths (1.0).
FullFraction == 100

\* The values of --min_aln_coverage and --min_aln_identity tried.
CoverageInputs == {MIN_ALN_COVERAGE_DEFAULT, FullFraction}
IdentityInputs == {MIN_ALN_IDENTITY_DEFAULT, FullFraction}

\* The parsed command line of a run.  The options that are the same in the two
\* runs: a junction tolerance of one base, --skip_5_exon_alt not given.
RunArgsInputs ==
    [min_aln_coverage : CoverageInputs, min_aln_identity : IdentityInputs,
     max_fuzzy_junction : {1}, allow_extra_5exon : BOOLEAN,
     skip_5_exon_alt : {SKIP_5_EXON_ALT_DEFAULT}]

DefaultRunArgs ==
    [min_aln_coverage |-> MIN_ALN_COVERAGE_DEFAULT,
     min_aln_identity |-> MIN_ALN_IDENTITY_DEFAULT,
     max_fuzzy_junction |-> MAX_FUZZY_JUNCTION_DEFAULT,
     allow_extra_5exon |-> ALLOW_EXTRA_5EXON_DEFAULT,
     skip_5_exon_alt |-> SKIP_5_EXON_ALT_DEFAULT]

\* Two runs that differ only in that the second has a higher min_aln_coverage
\* or a higher min_aln_identity.
RaisedThreshold(a, b) ==
    /\ b.max_fuzzy_junction = a.max_fuzzy_junction
    /\ b.allow_extra_5exon = a.allow_extra_5exon
    /\ b.skip_5_exon_alt = a.skip_5_exon_alt
    /\ b.min_aln_coverage >= a.min_aln_coverage
    /\ b.min_aln_identity >= a.min_aln_identity
    /\ b # a

\* The mutant of FilterKwargs: the two thresholds are handed on swapped.
FilterKwargsSwapped(args) ==
    [min_aln_coverage |-> args.min_aln_identity,
     min_aln_identity |-> args.min_aln_coverage]

\* The filter thresholds args_runner builds CollapseIsoformsRunner with.
FilterKwargs(args) ==
    [min_aln_coverage |-> args.min_aln_coverage,
     min_aln_identity |-> args.min_aln_identity]

\* The chains of the alignment records: one exon, or two with the second
\* starting at MaxPos - 1; the 3' boundary is at MaxPos, so that the records
\* of any subset form one locus.
AlnChains ==
    {c \in Chains : /\ Len(c) <= 3
                    /\ c[Len(c)] = MaxPos
                    /\ Len(c) = 3 => c[2] = MaxPos - 1}

\* The alignment records: an exon chain with its coverage and identity.
AlnRecords ==
    [chain : AlnChains, coverage : CoverageInputs, identity : IdentityInputs]

\* keep(record) of the Alignment Filter.
Keep(rec, thresholds) ==
    /\ rec.coverage >= thresholds.min_aln_coverage
    /\ rec.identity >= thresholds.min_aln_identity

\* The places of the records that survive the filter, in file order.
Survivors(aln, thresholds) ==
    Ascending({i \in 1..Len(aln) : Keep(aln[i], thresholds)})

\* One run of the engine over the records of a locus: the survivors of the
\* filter, and their groups.
EngineRun(aln, args) ==
    LET kept == Survivors(aln, FilterKwargs(args))
        iso == [p \in 1..Len(kept) |-> aln[kept[p]].chain]
    IN  [kept |-> kept,
         parent |-> UnionMatches([i \in 1..Len(kept) |-> i], iso,
                                 RunnerKwargs(args), 1, 2)]

InitFilter ==
    /\ fpc = "idle"
    /\ fargs = <<DefaultRunArgs, DefaultRunArgs>>
    /\ faln = <<>>
    /\ fkept = <<<<>>, <<>>>>
    /\ fparent = <<<<>>, <<>>>>

\* The command lines of the two runs are parsed.
ParseRunArgs ==
    /\ fpc = "idle"
    /\ \E a, b \in RunArgsInputs :
        /\ RaisedThreshold(a, b)
        /\ fargs' = <<a, b>>
    /\ fpc' = "reading"
    /\ UNCHANGED <<faln, fkept, fparent>>
    /\ UNCHANGED notFilter

\* The alignment file holds one more record.
ReadRecord ==
    /\ fpc = "reading"
    /\ Len(faln) < MaxAln
    /\ \E rec \in AlnRecords :
        /\ faln # <<>> => ChainLeq(faln[Len(faln)].chain, rec.chain)
        /\ faln' = Append(faln, rec)
    /\ UNCHANGED <<fpc, fargs, fkept, fparent>>
    /\ UNCHANGED notFilter

\* The first run over the alignment file.
FirstRun ==
    /\ fpc = "reading"
    /\ LET run == EngineRun(faln, fargs[1])
       IN  /\ fkept' = [fkept EXCEPT ![1] = run.kept]
           /\ fparent' = [fparent EXCEPT ![1] = run.parent]
    /\ fpc' = "first"
    /\ UNCHANGED <<fargs, faln>>
    /\ UNCHANGED notFilter

\* The second run over the same alignment file.
SecondRun ==
    /\ fpc = "first"
    /\ LET run == EngineRun(faln, fargs[2])
       IN  /\ fkept' = [fkept EXCEPT ![2] = run.kept]
           /\ fparent' = [fparent EXCEPT ![2] = run.parent]
    /\ fpc' = "both"
    /\ UNCHANGED <<fargs, faln>>
    /\ UNCHANGED notFilter

NextFilter ==
    \/ ParseRunArgs
    \/ ReadRecord
    \/ FirstRun
    \/ SecondRun

-----------------------------------------------------------------------------
(* The parallel workers and the single writer of the collapsing engine *)

StrandRank(st) == CHOOSE i \in 1..Len(StrandOrder) : StrandOrder[i] = st

\* The start coordinates of the loci tried.
LocusStarts == {0, 1}

\* A finalized locus, named by its reference, its strand and its start.
LocusKeys ==
    [ref : {RefOrder[i] : i \in 1..Len(RefOrder)}, strand : Strands,
     start : LocusStarts]

\* The order of the loci: by reference, then strand, then start coordinate.
KeyBefore(a, b) ==
    \/ RefRank(a.ref) < RefRank(b.ref)
    \/ (a.ref = b.ref /\ StrandRank(a.strand) < StrandRank(b.strand))
    \/ (a.ref = b.ref /\ a.strand = b.strand /\ a.start < b.start)

\* The loci that are with a worker.
Running(state) == {i \in 1..Len(state) : state[i] = "running"}

\* The streaming pass closes the loci of a reference before those of the next
\* and, on one strand, in ascending start order; the loci of the two strands
\* of a reference close in any order.
MayFollow(loci, key) ==
    \A j \in 1..Len(loci) :
        /\ RefRank(loci[j].ref) <= RefRank(key.ref)
        /\ (loci[j].ref = key.ref /\ loci[j].strand = key.strand)
              => loci[j].start < key.start

\* The streaming pass has left the reference of the locus.
PastReference(loci, closed, key) ==
    \/ closed
    \/ \E j \in 1..Len(loci) : RefRank(loci[j].ref) > RefRank(key.ref)

\* The mutant of Writable: the writer follows the order of the hand-off.
WritableInHandOffOrder(loci, state, closed) ==
    {i \in 1..Len(state) :
        /\ state[i] = "finished"
        /\ \A j \in 1..(i - 1) : state[j] = "written"}

\* The loci whose rows the writer may write now: a locus whose worker has
\* finished, when every locus handed off that precedes it is written and no
\* locus that precedes it can still be handed off.
Writable(loci, state, closed) ==
    {i \in 1..Len(state) :
        /\ state[i] = "finished"
        /\ \A j \in 1..Len(state) :
              KeyBefore(loci[j], loci[i]) => state[j] = "written"
        /\ \/ StrandRank(loci[i].strand) = 1
           \/ PastReference(loci, closed, loci[i])}

InitWriter ==
    /\ wpc = "streaming"
    /\ wloci = <<>>
    /\ wstate = <<>>
    /\ wfin = <<>>
    /\ wout = <<>>

\* The streaming pass finalizes the next locus and hands it off.
HandOff ==
    /\ wpc = "streaming"
    /\ Len(wloci) < MaxLoci
    /\ \E key \in LocusKeys :
        /\ MayFollow(wloci, key)
        /\ wloci' = Append(wloci, key)
    /\ wstate' = Append(wstate, "queued")
    /\ UNCHANGED <<wpc, wfin, wout>>
    /\ UNCHANGED notWriter

\* The alignment stream ends: no further locus is handed off.
LastHandOff ==
    /\ wpc = "streaming"
    /\ wloci # <<>>
    /\ wpc' = "closed"
    /\ UNCHANGED <<wloci, wstate, wfin, wout>>
    /\ UNCHANGED notWriter

\* A free worker takes a locus that waits.
StartWorker ==
    /\ Cardinality(Running(wstate)) < MaxWorkers
    /\ \E i \in 1..Len(wstate) :
        /\ wstate[i] = "queued"
        /\ wstate' = [wstate EXCEPT ![i] = "running"]
    /\ UNCHANGED <<wpc, wloci, wfin, wout>>
    /\ UNCHANGED notWriter

\* A worker finishes its locus: the locus's rows are ready.
FinishWorker ==
    /\ \E i \in Running(wstate) :
        /\ wstate' = [wstate EXCEPT ![i] = "finished"]
        /\ wfin' = Append(wfin, i)
    /\ UNCHANGED <<wpc, wloci, wout>>
    /\ UNCHANGED notWriter

\* The writer writes the rows of one locus, all of them at once.
WriteLocus ==
    /\ \E i \in Writable(wloci, wstate, wpc = "closed") :
        /\ wout' = Append(wout, wloci[i])
        /\ wstate' = [wstate EXCEPT ![i] = "written"]
    /\ UNCHANGED <<wpc, wloci, wfin>>
    /\ UNCHANGED notWriter

NextWriter ==
    \/ HandOff
    \/ LastHandOff
    \/ StartWorker
    \/ FinishWorker
    \/ WriteLocus

-----------------------------------------------------------------------------
(* The specifications *)

Init ==
    /\ InitName
    /\ InitRunner
    /\ InitTool
    /\ InitLocus
    /\ InitMatch
    /\ InitFilter
    /\ InitWriter

\* The naming convention alone.
SpecName == Init /\ [][NextName]_vars

\* args_runner alone.
SpecRunner == Init /\ [][NextRunner]_vars

\* PBTranscript alone.
SpecTool == Init /\ [][NextTool]_vars

\* The Locus Partitioner alone.
SpecLocus == Init /\ [][NextLocus]_vars

\* args_runner's engine options and the Fuzzy Exon-Chain Matcher.
SpecMatch == Init /\ [][NextMatch]_vars

\* Two runs of the engine over one alignment set, the second with raised
\* filter thresholds.
SpecFilter == Init /\ [][NextFilter]_vars

\* The workers and the writer of one run.
SpecWriter == Init /\ [][NextWriter]_vars

-----------------------------------------------------------------------------
(* Properties of the naming convention *)

SameName(a, b) ==
    /\ a.cluster_id_str = b.cluster_id_str
    /\ a.num_fl = b.num_fl
    /\ a.num_nfl = b.num_nfl
    /\ a.length = b.length

\* A ClusterName was constructed, printed, and the text parsed back by
\* ClusterName.fromString.
ClusterRoundTripDone ==
    npc = "parsed_cluster" /\ nobj.ok /\ nargs.cls = "ClusterName"

HasSlash(s) == \E i \in 1..Len(s) : s[i] = "/"

\* C1 as stated: for every (cluster_id, num_fl, num_nfl, length) the
\* constructor accepts, with cluster_id an integer or any string,
\* ClusterName.fromString(str(ClusterName(...))) succeeds and returns the
\* original's cluster_id_str, num_fl, num_nfl and length.
C1_RoundTripAnyString ==
    ClusterRoundTripDone => (nparsed.ok /\ SameName(nparsed, nobj))

\* C1 amended: the round trip succeeds field by field when cluster_id is an
\* integer or a string that holds no '/'.
C1_RoundTrip ==
    (ClusterRoundTripDone /\ ~HasSlash(nargs.cluster_id.s))
        => (nparsed.ok /\ nparsed.cls = "ClusterName" /\ SameName(nparsed, nobj))

\* A round trip of ClusterName('12', 2, 11, 7) that came back as c12/f2p11/7.
C1_Witness ==
    /\ ClusterRoundTripDone
    /\ nargs.cluster_id = StrV(<<"1", "2">>)
    /\ nargs.num_fl = 2 /\ nargs.num_nfl = 11 /\ nargs.length = 7
    /\ ntext = <<"c", "1", "2", "/", "f", "2", "p", "1", "1", "/", "7">>
    /\ nparsed.ok /\ nparsed.num_nfl = 11

\* The form the parser is said to require: exactly two '/' separators, the
\* middle field the letter f, an integer, the letter p, an integer, and an
\* integer length.
WellFormedName(line) ==
    LET parts == Split(line, "/")
    IN  /\ Len(parts) = 3
        /\ StartsWith(parts[2], <<"f">>)
        /\ LET nums == Split(From(parts[2], 1), "p")
           IN  Len(nums) = 2 /\ IsIntLiteral(nums[1]) /\ IsIntLiteral(nums[2])
        /\ IsIntLiteral(parts[3])

\* C2: ClusterName.fromString(line) returns a ClusterName only when line has
\* the form c<cluster_index>/f<num_fl>p<num_nfl>/<length>; every other line
\* (wrong separator count, non-numeric field, wrong marker letters) fails with
\* a ValueError whose message names the line.
C2_StrictParsing ==
    npc = "parsed_cluster" =>
        /\ nparsed.ok <=> WellFormedName(ntext)
        /\ ~nparsed.ok => (nparsed.err = "ValueError" /\ nparsed.msg = ntext)

\* C8: every constructed ClusterName (directly or through fromString) has a
\* cluster_id_str that starts with 'c'; a string already prefixed with 'c' is
\* kept unchanged; 12, '12' and 'c12' all give 'c12'; a cluster_id that is
\* neither an integer nor a string gives an error and no object.
C8_CanonicalClusterId ==
    /\ nobj.ok => StartsWith(nobj.cluster_id_str, <<"c">>)
    /\ nparsed.ok => StartsWith(nparsed.cluster_id_str, <<"c">>)
    /\ nargs.cls # "" =>
        /\ (nargs.cluster_id.t = "str" /\ StartsWith(nargs.cluster_id.s, <<"c">>))
             => (nobj.ok /\ nobj.cluster_id_str = nargs.cluster_id.s)
        /\ nargs.cluster_id \in {IntV(12), StrV(<<"1", "2">>), StrV(<<"c", "1", "2">>)}
             => (nobj.ok /\ nobj.cluster_id_str = <<"c", "1", "2">>)
        /\ nargs.cluster_id.t \notin {"int", "str"}
             => (~nobj.ok /\ nobj.err = "ValueError")
        /\ nargs.cluster_id.t \in {"int", "str"} => nobj.ok

\* ClusterName('c12', ...) was constructed and kept its id.
C8_Witness ==
    /\ npc = "built"
    /\ nargs.cls = "ClusterName"
    /\ nargs.cluster_id = StrV(<<"c", "1", "2">>)
    /\ nobj.ok
    /\ nobj.cluster_id_str = <<"c", "1", "2">>

\* C9: the text form of a SampleIsoformName is
\* '<sample>|c<id>/f<num_fl>p<num_nfl>/<length>', and
\* SampleIsoformName.fromString(str(x)) succeeds with x's sample_prefix,
\* cluster_id_str, num_fl, num_nfl and length.
C9_SampleRoundTrip ==
    (npc = "parsed_sample" /\ nobj.ok /\ nargs.cls = "SampleIsoformName") =>
        /\ ntext = nobj.sample_prefix \o <<"|">> \o ClusterNameStr(nobj)
        /\ nparsed.ok
        /\ nparsed.sample_prefix = nobj.sample_prefix
        /\ SameName(nparsed, nobj)

-----------------------------------------------------------------------------
(* Properties of parse_ds_filename and args_runner *)

\* args_runner has handed a filename to parse_ds_filename.
FilenameParsed == rpc \in {"done", "raised"} /\ rarg.given /\ rret # "EngineError"

\* C5: parse_ds_filename(fn) reports the contig-set format exactly when fn ends
\* with '.contigset.xml', FASTA exactly when it ends with '.fasta' or '.fa',
\* FASTQ exactly when it ends with '.fastq' or '.fq'; every other filename
\* gives no result and the ValueError.
C5_FormatBySuffix ==
    FilenameParsed =>
        /\ (rparse.ok /\ rparse.suffix = "contigset.xml")
             <=> EndsWith(rarg.fn, DotContigsetXml)
        /\ (rparse.ok /\ rparse.suffix = "fasta")
             <=> (EndsWith(rarg.fn, DotFasta) \/ EndsWith(rarg.fn, DotFa))
        /\ (rparse.ok /\ rparse.suffix = "fastq")
             <=> (EndsWith(rarg.fn, DotFastq) \/ EndsWith(rarg.fn, DotFq))
        /\ ~rparse.ok <=>
             ~(\E e \in {DotContigsetXml, DotFasta, DotFa, DotFastq, DotFq} :
                 EndsWith(rarg.fn, e))
        /\ ~rparse.ok => (rparse.err = "ValueError" /\ rret = "ValueError")

\* d/a.b.fq was recognised as FASTQ, with prefix d/a.b.
C5_Witness ==
    /\ FilenameParsed
    /\ rarg.fn = <<"d", "/", "a", ".", "b", ".", "f", "q">>
    /\ rparse.ok
    /\ rparse.suffix = "fastq"
    /\ rparse.prefix = <<"d", "/", "a", ".", "b">>

\* C6: with --collapsed_isoforms F of a recognized format, F is linked to the
\* representative file of F's format when that exists; otherwise a contig-set
\* F is made from the FASTA representative (as_contigset); IOError is raised
\* only when F's format can be derived in neither way; every other path
\* returns 0.
C6_CopyOrRewrap ==
    (rpc \in {"done", "raised"} /\ rarg.given /\ rparse.ok) =>
        /\ rparse.suffix \in rrep => (rdid = "ln" /\ rret = "0")
        /\ (rparse.suffix \notin rrep /\ EndsWith(rarg.fn, DotContigsetXml))
             => (rdid = "as_contigset" /\ rret = "0")
        /\ rret = "IOError"
             => (rparse.suffix \notin rrep /\ ~EndsWith(rarg.fn, DotContigsetXml))
        /\ rret \in {"0", "IOError"}

-----------------------------------------------------------------------------
(* Properties of PBTranscript.run *)

RunEnded == tpc \in {"returned", "propagated"}

\* C7 as stated: run() dispatches to exactly the tool the sub-command names;
\* it returns 0 if and only if that tool's run completes without raising, and
\* returns 1, never letting the exception reach the caller, when the tool
\* raises any exception or the sub-command is not one of the three.
C7_ExitCodesAnyException ==
    RunEnded =>
        /\ tcmd \in KnownCommands => ttool = tcmd
        /\ tret = "0" <=> (tcmd \in KnownCommands /\ traised = "")
        /\ (traised # "" \/ tcmd \notin KnownCommands)
             => (tpc = "returned" /\ tret = "1")

\* C7 amended: as stated for the exceptions derived from Exception; an
\* exception derived from BaseException alone (KeyboardInterrupt, SystemExit)
\* leaves run() and no code is returned.
C7_ExitCodes ==
    RunEnded =>
        /\ tcmd \in KnownCommands => ttool = tcmd
        /\ tcmd \notin KnownCommands => ttool = ""
        /\ tret = "0" <=> (tcmd \in KnownCommands /\ traised = "")
        /\ (traised = "Exception" \/ tcmd \notin KnownCommands)
             => (tpc = "returned" /\ tret = "1")
        /\ traised = "BaseException" <=> tpc = "propagated"

\* The cluster tool raised an exception and run() returned 1.
C7_Witness ==
    /\ tpc = "returned"
    /\ tsub.subCommand = "None"
    /\ tcmd = "cluster"
    /\ ttool = "cluster"
    /\ traised = "Exception"
    /\ tret = "1"

-----------------------------------------------------------------------------
(* Properties of the Locus Partitioner *)

EmittedLoci == 1..Len(lemit)

\* C4: for every correctly sorted filtered stream, once the partitioner has
\* consumed it every record belongs to exactly one emitted locus; records of
\* different emitted loci never overlap; and a locus is emitted only when no
\* later record overlaps it.
C4_PartitionCorrect ==
    /\ lpc = "done" =>
         \A i \in 1..Len(lin) :
            \E k \in EmittedLoci :
                /\ i \in lemit[k].members
                /\ \A m \in EmittedLoci : i \in lemit[m].members => m = k
    /\ \A k, m \in EmittedLoci :
         k # m => \A i \in lemit[k].members, j \in lemit[m].members :
                     ~Overlap(lin[i], lin[j])
    /\ \A k \in EmittedLoci :
         /\ \A i \in lemit[k].members : i <= lemit[k].at
         /\ \A j \in (lemit[k].at + 1)..Len(lin), i \in lemit[k].members :
               ~Overlap(lin[i], lin[j])

\* A stream of three records on one strand ended with two loci: the second
\* record lies inside the first, the third starts past both.
C4_Witness ==
    /\ lpc = "done"
    /\ Len(lin) = 3
    /\ lin[1].start = 0 /\ lin[1].end = 1
    /\ lin[2].start = 0 /\ lin[2].end = 0
    /\ lin[3].start = 3
    /\ \A i \in 1..3 : lin[i].ref = "chr1" /\ lin[i].strand = "+"
    /\ Len(lemit) = 2
    /\ lemit[1].members = {1, 2}
    /\ lemit[2].members = {3}

-----------------------------------------------------------------------------
(* Properties of the Fuzzy Exon-Chain Matcher *)

Members == 1..Len(miso)

\* The pairwise relation the engine applies.
Matches(i, j) == Match(miso[i], miso[j], mopts)

SameGroup(i, j) == GroupOf(mparent, i) = GroupOf(mparent, j)

\* The isoforms a chain of pairwise matches links to those of S.
RECURSIVE Linked(_)
Linked(S) ==
    LET T == S \cup {j \in Members : \E i \in S : Matches(i, j) \/ Matches(j, i)}
    IN  IF T = S THEN S ELSE Linked(T)

\* C3: within one locus the final groups are exactly the connected components
\* of the pairwise fuzzy-match relation: two isoforms share a group if and only
\* if a chain of pairwise matches links them; so a chain A~B~C with A and C not
\* matching is one group, and isoforms of different groups never match.
C3_ConnectedComponents ==
    mpc = "grouped" =>
        /\ \A i \in Members : {j \in Members : SameGroup(i, j)} = Linked({i})
        /\ \A i, j, k \in Members :
             (Matches(i, j) /\ Matches(j, k)) => (SameGroup(i, j) /\ SameGroup(j, k))
        /\ \A i, j \in Members : ~SameGroup(i, j) => ~Matches(i, j)

\* A chain A~B~C whose ends do not match, grouped as one.
C3_Witness ==
    /\ mpc = "grouped"
    /\ Len(miso) = 3
    /\ Matches(1, 2) /\ Matches(2, 3) /\ ~Matches(1, 3)
    /\ SameGroup(1, 3)

\* Scenarios 3 and 4: A has two exons, B the same with one more exon at the 5'
\* end.
ScenarioA == <<2, 3, 4>>
ScenarioB == <<0, 1, 2, 3, 4>>

\* C10: isoforms of differing exon counts match directly only when
\* allow_extra_5exon is true, skip_5_exon_alt is false, one has exactly one
\* extra exon at the 5' end and the remaining junctions fuzzy-match; with
\* allow_extra_5exon false, or skip_5_exon_alt true, no group holds chains of
\* differing exon counts (Scenario 3 is one group, Scenario 4 two).
C10_FivePrimePolicy ==
    mpc = "grouped" =>
        /\ \A i, j \in Members :
             (ExonCount(miso[i]) # ExonCount(miso[j])
                /\ Match(miso[i], miso[j], mopts)) =>
                 /\ margs.allow_extra_5exon
                 /\ ~margs.skip_5_exon_alt
                 /\ \/ ExtraFivePrimeExon(miso[i], miso[j], margs.max_fuzzy_junction)
                    \/ ExtraFivePrimeExon(miso[j], miso[i], margs.max_fuzzy_junction)
        /\ (~margs.allow_extra_5exon \/ margs.skip_5_exon_alt) =>
             \A i, j \in Members :
                SameGroup(i, j) => ExonCount(miso[i]) = ExonCount(miso[j])
        /\ miso = <<ScenarioA, ScenarioB>> =>
             (SameGroup(1, 2) <=> (margs.allow_extra_5exon /\ ~margs.skip_5_exon_alt))

\* Scenario 3: the two isoforms are one group.
C10_Witness ==
    /\ mpc = "grouped"
    /\ miso = <<ScenarioA, ScenarioB>>
    /\ margs.allow_extra_5exon
    /\ ~margs.skip_5_exon_alt
    /\ margs.max_fuzzy_junction = 0
    /\ SameGroup(1, 2)

-----------------------------------------------------------------------------
(* Properties of the Alignment Filter under raised thresholds *)

Runs == {1, 2}

\* The isoforms that survive run k, as places of the alignment set.
KeptSet(k) == {fkept[k][q] : q \in 1..Len(fkept[k])}

\* The group of the surviving isoform p in run k.
GroupIn(k, p) ==
    GroupOf(fparent[k], CHOOSE q \in 1..Len(fkept[k]) : fkept[k][q] = p)

\* The number of final groups of run k.
GroupCount(k) == Cardinality({GroupIn(k, p) : p \in KeptSet(k)})

\* The record meets the thresholds the run was given on its command line.
MeetsThresholds(rec, args) ==
    /\ rec.coverage >= args.min_aln_coverage
    /\ rec.identity >= args.min_aln_identity

\* C11 as stated: for every alignment set and every pair of runs that differ
\* only in that the second has a higher min_aln_coverage or a higher
\* min_aln_identity, the second run has no more surviving isoforms and no more
\* final groups than the first.
C11_ThresholdMonotone ==
    fpc = "both" =>
        /\ Cardinality(KeptSet(2)) <= Cardinality(KeptSet(1))
        /\ GroupCount(2) <= GroupCount(1)

\* C11 amended: each run keeps exactly the records that meet its thresholds,
\* so the second run's survivors are among the first's and are no more; the
\* groups may be more, but two isoforms that share a group in the second run
\* share a group in the first.
C11_SurvivorsMonotone ==
    fpc = "both" =>
        /\ \A k \in Runs :
             KeptSet(k) = {p \in 1..Len(faln) : MeetsThresholds(faln[p], fargs[k])}
        /\ KeptSet(2) \subseteq KeptSet(1)
        /\ Cardinality(KeptSet(2)) <= Cardinality(KeptSet(1))
        /\ \A p, q \in KeptSet(2) :
             GroupIn(2, p) = GroupIn(2, q) => GroupIn(1, p) = GroupIn(1, q)

\* Three isoforms are one group in the first run; the raised threshold of the
\* second run drops the middle one and leaves two groups.
C11_Witness ==
    /\ fpc = "both"
    /\ Len(faln) = 3
    /\ RaisedThreshold(fargs[1], fargs[2])
    /\ KeptSet(1) = {1, 2, 3}
    /\ KeptSet(2) = {1, 3}
    /\ GroupCount(1) = 1
    /\ GroupCount(2) = 2

-----------------------------------------------------------------------------
(* Properties of the writer *)

-----------------------------------------------------------------------------
(* The order of the steps of args_runner *)

\* C13: the engine's run() has returned before --collapsed_isoforms is
\* examined: a parse result, a link, a conversion, a return of 0 or a failure
\* of the output (ValueError, IOError) exist only after it; when the argument
\* is absent nothing is parsed, linked or converted and args_runner returns 0;
\* args_runner ends before the run has returned only with the engine's own
\* exception.
C13_RunBeforeOutput ==
    /\ (rparse # NoParse \/ rdid # "" \/ rret \in {"0", "ValueError", "IOError"})
         => rout
    /\ (rpc \in {"done", "raised"} /\ rout /\ ~rarg.given)
         => (rpc = "done" /\ rparse = NoParse /\ rdid = "" /\ rret = "0")
    /\ (rpc \in {"done", "raised"} /\ ~rout)
         => (rpc = "raised" /\ rret = "EngineError" /\ rparse = NoParse /\ rdid = "")

\* The run returned, and then the unrecognized extension of
\* --collapsed_isoforms raised ValueError.
C13_Witness ==
    /\ rpc = "raised"
    /\ rout
    /\ rarg.given
    /\ ~rparse.ok
    /\ rret = "ValueError"

=============================================================================
